---------------------------- MODULE Spec2Model ----------------------------
(***************************************************************************)
(* A model of Sources/CLibarchive/libarchive_wrapper.c: the four entry     *)
(* points extract_archive, compress_files, check_archive_encryption and    *)
(* check_archive_format_support, with the two static helpers copy_data and *)
(* add_directory_to_archive.                                               *)
(*                                                                         *)
(* One call runs per behaviour.  Every call the wrapper makes to libarchive*)
(* or to the operating system is one step; the answer of the collaborator  *)
(* is chosen nondeterministically among the statuses it can return.  The   *)
(* cancel flag is a shared cell that another thread may set between any    *)
(* two steps.  Allocation (archive_read_new, archive_write_new,            *)
(* archive_entry_new) is taken to succeed.                                 *)
(***************************************************************************)
EXTENDS Integers, Sequences, FiniteSets, TLC

(***************************************************************************)
(* Bounds of the model.                                                    *)
(***************************************************************************)
\* header reads of one extract_archive / check_archive_encryption call that
\* may answer something else than end-of-archive or a failure
MaxHeaders == 2
\* data blocks one entry (or one source file) may deliver before its end
MaxBlocks == 2
\* open directory streams the process may hold (the descriptor limit)
MaxDepth == 4
\* lengths, in bytes, of the file names the source trees use
LenA == 255
LenB == 253
LenC == 5

(***************************************************************************)
(* Program constants.                                                      *)
(***************************************************************************)
\* libarchive status codes (archive.h)
ARCHIVE_EOF == 1
ARCHIVE_OK == 0
ARCHIVE_RETRY == -10
ARCHIVE_WARN == -20
ARCHIVE_FAILED == -25
ARCHIVE_FATAL == -30

\* the wrapper's result codes
SUCCESS == 0
ERROR_CREATE_ARCHIVE_FAILED == -1
ERROR_OPEN_FILE_FAILED == -2
ERROR_READ_ENTRY_FAILED == -3
ERROR_EXTRACT_FAILED == -4
ERROR_COMPRESS_FAILED == -5
ERROR_PASSWORD_REQUIRED == -6
ERROR_WRONG_PASSWORD == -7
ERROR_UNSUPPORTED_FORMAT == -8
ERROR_OPERATION_CANCELLED == -9

ENCRYPTION_NONE == 0
ENCRYPTION_PRESENT == 1
ENCRYPTION_UNKNOWN == -1

\* char full_path[512]; char archive_path[512];
BufSize == 512

\* statuses a libarchive call may answer (other than end-of-archive)
Statuses == {ARCHIVE_OK, ARCHIVE_RETRY, ARCHIVE_WARN, ARCHIVE_FAILED, ARCHIVE_FATAL}

(***************************************************************************)
(* C strings.  A string is a sequence of pieces; a piece is a file name    *)
(* (or the first len bytes of one, after a truncation) or the separator.   *)
(***************************************************************************)
NameLen(n) ==
    CASE n = "A" -> LenA
      [] n = "B" -> LenB
      [] n = "c" -> LenC
      [] n = ".." -> 2
      [] OTHER -> 1

Tok(n) == [n |-> n, len |-> NameLen(n)]
Sep == [n |-> "/", len |-> 1]
Str(n) == <<Tok(n)>>
NullStr == <<[n |-> "NULL", len |-> 0]>>

RECURSIVE StrLen(_)
StrLen(s) == IF s = <<>> THEN 0 ELSE Head(s).len + StrLen(Tail(s))

\* the first cap bytes of s
RECURSIVE Truncate(_, _)
Truncate(s, cap) ==
    IF s = <<>> \/ cap <= 0 THEN <<>>
    ELSE IF Head(s).len <= cap
         THEN <<Head(s)>> \o Truncate(Tail(s), cap - Head(s).len)
         ELSE <<[n |-> Head(s).n, len |-> cap]>>

\* snprintf(buf, sizeof(buf), ...): at most sizeof(buf) - 1 bytes are kept
Snprintf(s) == Truncate(s, BufSize - 1)

\* snprintf(full_path, ..., "%s/%s", dir_path, entry->d_name)
FullPath(dir_path, name) == Snprintf(dir_path \o <<Sep>> \o Str(name))

\* parent_path && strlen(parent_path) > 0 ? "%s/%s" : "%s"
ArchivePath(parent_path, name) ==
    IF parent_path # NullStr /\ StrLen(parent_path) > 0
    THEN Snprintf(parent_path \o <<Sep>> \o Str(name))
    ELSE Snprintf(Str(name))


(***************************************************************************)
(* State.                                                                  *)
(***************************************************************************)
VARIABLES
    op,          \* the entry point called
    password,    \* TRUE: a password is supplied, FALSE: password == NULL
    format,      \* compress_files: the format selector
    tree,        \* compress_files: the file system under the source path
    token,       \* cancel_flag: "null" (no flag), "clear" (*flag == 0), "set"
    tok0,        \* what the check at the head of the call read ("unread" before)
    pc,          \* the position of the call in its code
    a,           \* struct archive *a: "null", "live", "freed"
    ext,         \* struct archive *ext: "null", "live", "freed"
    file,        \* FILE *file: "null", "live", "closed"
    stack,       \* the activations of add_directory_to_archive, innermost last
    cwd,         \* the working directory of the process
    current_dir, \* char current_dir[PATH_MAX], "unset" before getcwd
    changed_dir, \* int changed_dir
    r,           \* int r
    entry,       \* the entry the last header read delivered
    result,      \* int result, the value returned at "done"
    has_encrypted_entries, \* check_archive_encryption's local
    supported,   \* check_archive_format_support's local
    nhdr,        \* header reads that delivered an entry so far
    nblk,        \* data blocks delivered for the current entry or file
    did,         \* the collaborator calls made so far (their names)
    call,        \* the collaborator call of the last step ("none": no call)
    misuse,      \* a call was made on a handle that is not live
    leak,        \* an activation returned with its directory stream open
    wrote,       \* extract_archive: writes issued for the current entry
    cause,       \* the step that decided the result
    badio,       \* calls that answered a failure status, by kind
    hdrs,        \* compress_files: the entry headers written, in order
    buff,        \* copy_data: the block (buff, size, offset) of the last read
    seen,        \* check_archive_encryption: the header reads so far
    blocks_read, \* copy_data: the blocks read in this call, in order
    blocks_written, \* copy_data: the blocks written in this call, in order
    unpolled,    \* data blocks written since the last poll of the flag
    late,        \* extract_archive: writes issued since the flag was set
    peer,        \* a second extract_archive call of the process: its position
                 \* and its locals current_dir and changed_dir
    landed       \* the directory each header written to disk was created in

inputs == <<op, password, format, tree>>
dirv == <<cwd, current_dir, changed_dir>>
walkv == <<file, stack, hdrs>>
inspv == <<has_encrypted_entries, supported>>
copyv == <<buff, blocks_read, blocks_written>>
pairv == <<peer, landed>>
obsv == <<seen, copyv, unpolled, late, pairv>>
vars == <<op, password, format, tree, token, tok0, pc, a, ext, file, stack,
          cwd, current_dir, changed_dir, r, entry, result,
          has_encrypted_entries, supported, nhdr, nblk, did, call, misuse,
          leak, wrote, cause, badio, hdrs, buff, seen, blocks_read,
          blocks_written, unpolled, late, peer, landed>>

NoEntry == [valid |-> FALSE, enc |-> FALSE, size |-> 0]
\* what a header read can deliver: the encrypted flag, and a size of 0 or more
Entries == {[valid |-> TRUE, enc |-> e, size |-> z] : e \in BOOLEAN, z \in {0, 1}}

\* a data block: its length and its offset in the entry; NoBlock before a read
NoBlock == [size |-> 0, offset |-> 0]

\* the lengths a data block may have
BlockSizes == {1, 2}

\* a flag pointer that is NULL read as a flag that is set
Cancelled_spurious(tok) == tok # "clear"

\* cancel_flag && *cancel_flag
Cancelled(tok) == tok = "set"

\* a status that is not OK, EOF, Retry or Warning
Failure(s) == s \notin {ARCHIVE_OK, ARCHIVE_EOF, ARCHIVE_RETRY, ARCHIVE_WARN}

\* a call with handle h as its argument is a misuse unless h is live
Touch(h) == h # "live"

Did(c) == did' = did \cup {c} /\ call' = c

(***************************************************************************)
(* Another thread sets the cancel flag.                                    *)
(***************************************************************************)
SetCancel ==
    /\ token = "clear"
    /\ pc # "done"
    /\ token' = "set"
    /\ UNCHANGED <<inputs, tok0, pc, a, ext, dirv, walkv, inspv, r, entry,
                   result, nhdr, nblk, did, call, misuse, leak, wrote, cause,
                   badio, obsv>>

(***************************************************************************)
(* extract_archive                                                         *)
(***************************************************************************)
\* the check at the head of the call left out
EarlyCancel_never(tok) == FALSE

\* lines 182-185: the check at the head of the call
EarlyCancel(tok) == Cancelled(tok)

\* goto cleanup with a result
E_Fail(code, why) == pc' = "e_restore" /\ result' = code /\ cause' = why

E_Entry ==
    /\ pc = "e_entry"
    /\ tok0' = token
    /\ IF EarlyCancel(token)
       THEN pc' = "done" /\ result' = ERROR_OPERATION_CANCELLED
            /\ cause' = "early_cancel"
       ELSE pc' = "e_new" /\ UNCHANGED <<result, cause>>
    /\ call' = "none"
    /\ unpolled' = 0
    /\ UNCHANGED <<inputs, token, a, ext, dirv, walkv, inspv, r, entry, nhdr,
                   nblk, did, misuse, leak, wrote, badio, seen, copyv, late,
                   pairv>>

\* lines 194-196
E_New ==
    /\ pc = "e_new"
    /\ a' = "live"
    /\ Did("archive_read_new")
    /\ pc' = IF password THEN "e_passphrase" ELSE "e_disk_new"
    /\ UNCHANGED <<inputs, token, tok0, ext, dirv, walkv, inspv, r, entry,
                   result, nhdr, nblk, misuse, leak, wrote, cause, badio, obsv>>

\* lines 199-206
E_Passphrase ==
    /\ pc = "e_passphrase"
    /\ \E s \in Statuses :
          /\ r' = s
          /\ IF s # ARCHIVE_OK
             THEN E_Fail(ERROR_WRONG_PASSWORD, "passphrase")
             ELSE pc' = "e_disk_new" /\ UNCHANGED <<result, cause>>
    /\ Did("archive_read_add_passphrase")
    /\ misuse' = (misuse \/ Touch(a))
    /\ UNCHANGED <<inputs, token, tok0, a, ext, dirv, walkv, inspv, entry,
                   nhdr, nblk, leak, wrote, badio, obsv>>

\* lines 209-211
E_DiskNew ==
    /\ pc = "e_disk_new"
    /\ ext' = "live"
    /\ Did("archive_write_disk_new")
    /\ pc' = "e_open"
    /\ UNCHANGED <<inputs, token, tok0, a, dirv, walkv, inspv, r, entry,
                   result, nhdr, nblk, misuse, leak, wrote, cause, badio, obsv>>

\* lines 214-218
E_Open ==
    /\ pc = "e_open"
    /\ \E s \in Statuses :
          /\ r' = s
          /\ IF s # ARCHIVE_OK
             THEN E_Fail(ERROR_OPEN_FILE_FAILED, "open")
             ELSE pc' = "e_stat" /\ UNCHANGED <<result, cause>>
    /\ Did("archive_read_open_filename")
    /\ misuse' = (misuse \/ Touch(a))
    /\ UNCHANGED <<inputs, token, tok0, a, ext, dirv, walkv, inspv, entry,
                   nhdr, nblk, leak, wrote, badio, obsv>>

\* lines 221-224: the destination directory is created when stat fails; the
\* result of mkdir is not looked at
E_Stat ==
    /\ pc = "e_stat"
    /\ \E exists \in BOOLEAN :
          IF exists
          THEN Did("stat")
          ELSE did' = did \cup {"stat", "mkdir"} /\ call' = "mkdir"
    /\ pc' = "e_getcwd"
    /\ UNCHANGED <<inputs, token, tok0, a, ext, dirv, walkv, inspv, r, entry,
                   result, nhdr, nblk, misuse, leak, wrote, cause, badio, obsv>>

\* lines 227-231
E_Getcwd ==
    /\ pc = "e_getcwd"
    /\ \E ok \in BOOLEAN :
          IF ok
          THEN /\ current_dir' = cwd
               /\ pc' = "e_chdir"
               /\ UNCHANGED <<result, cause>>
          ELSE /\ E_Fail(ERROR_EXTRACT_FAILED, "getcwd")
               /\ UNCHANGED current_dir
    /\ Did("getcwd")
    /\ UNCHANGED <<inputs, token, tok0, a, ext, cwd, changed_dir, walkv,
                   inspv, r, entry, nhdr, nblk, misuse, leak, wrote, badio, obsv>>

\* lines 233-238
E_Chdir ==
    /\ pc = "e_chdir"
    /\ \E ok \in BOOLEAN :
          IF ok
          THEN /\ cwd' = "dest"
               /\ changed_dir' = TRUE
               /\ pc' = "e_poll"
               /\ UNCHANGED <<result, cause>>
          ELSE /\ E_Fail(ERROR_EXTRACT_FAILED, "chdir")
               /\ UNCHANGED <<cwd, changed_dir>>
    /\ Did("chdir")
    /\ UNCHANGED <<inputs, token, tok0, a, ext, current_dir, walkv, inspv, r,
                   entry, nhdr, nblk, misuse, leak, wrote, badio, obsv>>

\* the entry loop without its poll
EntryPoll_never(tok) == FALSE

\* line 242: the poll at the head of the entry loop
EntryPoll(tok) == Cancelled(tok)

\* lines 242-246
E_Poll ==
    /\ pc = "e_poll"
    /\ IF EntryPoll(token)
       THEN E_Fail(ERROR_OPERATION_CANCELLED, "cancel")
       ELSE pc' = "e_next_header" /\ UNCHANGED <<result, cause>>
    /\ call' = "none"
    /\ unpolled' = 0
    /\ UNCHANGED <<inputs, token, tok0, a, ext, dirv, walkv, inspv, r, entry,
                   nhdr, nblk, did, misuse, leak, wrote, badio, seen, copyv,
                   late, pairv>>

\* the status of the header read looked at before the encrypted flag
HeaderDecision_statusFirst(s, e, pw) ==
    IF s = ARCHIVE_EOF
    THEN [pc |-> "e_restore", result |-> SUCCESS, cause |-> "eof"]
    ELSE IF s = ARCHIVE_RETRY
    THEN [pc |-> "e_poll", result |-> SUCCESS, cause |-> "none"]
    ELSE IF s # ARCHIVE_WARN /\ s < ARCHIVE_OK
    THEN [pc |-> "e_restore", result |-> ERROR_READ_ENTRY_FAILED, cause |-> "header"]
    ELSE IF e.enc /\ ~pw
    THEN [pc |-> "e_restore", result |-> ERROR_PASSWORD_REQUIRED, cause |-> "header"]
    ELSE IF e.enc /\ s < ARCHIVE_OK
    THEN [pc |-> "e_restore", result |-> ERROR_WRONG_PASSWORD, cause |-> "header"]
    ELSE [pc |-> "e_write_header", result |-> SUCCESS, cause |-> "none"]

\* after Retry the header read again without going through the poll
HeaderDecision_retryNoPoll(s, e, pw) ==
    IF s = ARCHIVE_EOF
    THEN [pc |-> "e_restore", result |-> SUCCESS, cause |-> "eof"]
    ELSE IF s = ARCHIVE_RETRY
    THEN [pc |-> "e_next_header", result |-> SUCCESS, cause |-> "none"]
    ELSE IF e.enc /\ ~pw
    THEN [pc |-> "e_restore", result |-> ERROR_PASSWORD_REQUIRED, cause |-> "header"]
    ELSE IF e.enc /\ s < ARCHIVE_OK
    THEN [pc |-> "e_restore", result |-> ERROR_WRONG_PASSWORD, cause |-> "header"]
    ELSE IF s = ARCHIVE_WARN
    THEN [pc |-> "e_write_header", result |-> SUCCESS, cause |-> "none"]
    ELSE IF s < ARCHIVE_OK
    THEN [pc |-> "e_restore", result |-> ERROR_READ_ENTRY_FAILED, cause |-> "header"]
    ELSE [pc |-> "e_write_header", result |-> SUCCESS, cause |-> "none"]

\* lines 248-277: what the loop does with the status s of the header read and
\* the entry e it delivered, with (pw) or without a password
HeaderDecision(s, e, pw) ==
    IF s = ARCHIVE_EOF
    THEN [pc |-> "e_restore", result |-> SUCCESS, cause |-> "eof"]
    ELSE IF s = ARCHIVE_RETRY
    THEN [pc |-> "e_poll", result |-> SUCCESS, cause |-> "none"]
    ELSE IF e.enc /\ ~pw
    THEN [pc |-> "e_restore", result |-> ERROR_PASSWORD_REQUIRED, cause |-> "header"]
    ELSE IF e.enc /\ s < ARCHIVE_OK
    THEN [pc |-> "e_restore", result |-> ERROR_WRONG_PASSWORD, cause |-> "header"]
    ELSE IF s = ARCHIVE_WARN
    THEN [pc |-> "e_write_header", result |-> SUCCESS, cause |-> "none"]
    ELSE IF s < ARCHIVE_OK
    THEN [pc |-> "e_restore", result |-> ERROR_READ_ENTRY_FAILED, cause |-> "header"]
    ELSE [pc |-> "e_write_header", result |-> SUCCESS, cause |-> "none"]

\* the answers of archive_read_next_header: an archive holds finitely many
\* entries, so after MaxHeaders of them only its end, a failure or a retry
\* is left; nothing bounds the retries
HeaderAnswers ==
    {<<s, e>> \in (Statuses \cup {ARCHIVE_EOF}) \X (Entries \cup {NoEntry}) :
        /\ (s \in {ARCHIVE_EOF, ARCHIVE_RETRY}) <=> (e = NoEntry)
        /\ (nhdr >= MaxHeaders) =>
               (s \in {ARCHIVE_EOF, ARCHIVE_RETRY} \/ Failure(s))}

\* lines 247-277
E_NextHeader ==
    /\ pc = "e_next_header"
    /\ \E ans \in HeaderAnswers :
          LET d == HeaderDecision(ans[1], ans[2], password) IN
          /\ r' = ans[1]
          /\ entry' = ans[2]
          /\ nhdr' = IF ans[2] = NoEntry THEN nhdr ELSE nhdr + 1
          /\ pc' = d.pc
          /\ result' = d.result
          /\ cause' = d.cause
    /\ wrote' = {}
    /\ Did("archive_read_next_header")
    /\ misuse' = (misuse \/ Touch(a))
    /\ UNCHANGED <<inputs, token, tok0, a, ext, dirv, walkv, inspv, nblk,
                   leak, badio, obsv>>

\* a failed write of the header taken for a failure of the extraction
AfterHeader_abort(s, e, res) ==
    IF s < ARCHIVE_OK
    THEN [pc |-> "e_restore", result |-> ERROR_EXTRACT_FAILED]
    ELSE IF e.size > 0 THEN [pc |-> "cd_poll", result |-> res]
    ELSE [pc |-> "e_poll", result |-> res]

\* lines 280-283: where the loop goes after archive_write_header answered s
\* for entry e, and the result (res before the call) it then holds
AfterHeader(s, e, res) ==
    IF s < ARCHIVE_OK THEN [pc |-> "e_poll", result |-> res]
    ELSE IF e.size > 0 THEN [pc |-> "cd_poll", result |-> res]
    ELSE [pc |-> "e_poll", result |-> res]

\* lines 279-283
E_WriteHeader ==
    /\ pc = "e_write_header"
    /\ \E s \in Statuses :
          LET d == AfterHeader(s, entry, result) IN
          /\ r' = s
          /\ pc' = d.pc
          /\ result' = d.result
          /\ badio' = IF Failure(s) THEN badio \cup {"disk_header"} ELSE badio
    /\ nblk' = 0
    /\ buff' = NoBlock /\ blocks_read' = <<>> /\ blocks_written' = <<>>
    /\ wrote' = wrote \cup {"header"}
    /\ landed' = landed \cup {[call |-> 1, dir |-> cwd]}
    /\ Did("archive_write_header")
    /\ misuse' = (misuse \/ Touch(ext))
    /\ late' = IF Cancelled(token) THEN late + 1 ELSE late
    /\ UNCHANGED <<inputs, token, tok0, a, ext, dirv, walkv, inspv, entry,
                   nhdr, leak, cause, seen, unpolled, peer>>

(***************************************************************************)
(* copy_data, called at line 283; lines 284-293 act on its return value    *)
(***************************************************************************)
\* lines 284-293 for the value rv returned by copy_data
CopyReturn(rv) ==
    IF rv = ERROR_OPERATION_CANCELLED
    THEN [pc |-> "e_restore", result |-> ERROR_OPERATION_CANCELLED]
    ELSE IF rv < ARCHIVE_OK
    THEN [pc |-> "e_restore", result |-> ERROR_EXTRACT_FAILED]
    ELSE [pc |-> "e_poll", result |-> SUCCESS]

\* lines 26-29
CD_Poll ==
    /\ pc = "cd_poll"
    /\ IF Cancelled(token)
       THEN LET d == CopyReturn(ERROR_OPERATION_CANCELLED) IN
            pc' = d.pc /\ result' = d.result /\ cause' = "copy_cancel"
       ELSE pc' = "cd_read" /\ UNCHANGED <<result, cause>>
    /\ call' = "none"
    /\ unpolled' = 0
    /\ UNCHANGED <<inputs, token, tok0, a, ext, dirv, walkv, inspv, r, entry,
                   nhdr, nblk, did, misuse, leak, wrote, badio, seen, copyv,
                   late, pairv>>

\* lines 30-34
CD_Read ==
    /\ pc = "cd_read"
    /\ \E s \in Statuses \cup {ARCHIVE_EOF} :
          /\ (nblk >= MaxBlocks) => (s # ARCHIVE_OK)
          /\ r' = s
          /\ IF s = ARCHIVE_EOF
             THEN LET d == CopyReturn(ARCHIVE_OK) IN
                  pc' = d.pc /\ UNCHANGED <<result, cause>>
             ELSE IF s < ARCHIVE_OK
             THEN LET d == CopyReturn(s) IN
                  pc' = d.pc /\ result' = d.result /\ cause' = "read_block"
             ELSE pc' = "cd_write" /\ UNCHANGED <<result, cause>>
          /\ nblk' = IF s = ARCHIVE_OK THEN nblk + 1 ELSE nblk
          /\ IF s = ARCHIVE_OK
             THEN \E z \in BlockSizes :
                     /\ buff' = [size |-> z, offset |-> nblk]
                     /\ blocks_read' = Append(blocks_read, buff')
             ELSE UNCHANGED <<buff, blocks_read>>
          /\ badio' = IF Failure(s) THEN badio \cup {"read_block"} ELSE badio
    /\ Did("archive_read_data_block")
    /\ misuse' = (misuse \/ Touch(a))
    /\ UNCHANGED <<inputs, token, tok0, a, ext, dirv, walkv, inspv, entry,
                   nhdr, leak, wrote, blocks_written, seen, unpolled, late,
                   pairv>>

\* the block written at offset 0 whatever its offset
WriteArgs_rewound(b) == [b EXCEPT !.offset = 0]

\* line 35: archive_write_data_block(aw, buff, size, offset)
WriteArgs(b) == b

\* lines 35-39
CD_Write ==
    /\ pc = "cd_write"
    /\ \E s \in Statuses :
          /\ r' = s
          /\ IF s < ARCHIVE_OK
             THEN LET d == CopyReturn(s) IN
                  pc' = d.pc /\ result' = d.result /\ cause' = "write_block"
             ELSE pc' = "cd_poll" /\ UNCHANGED <<result, cause>>
          /\ badio' = IF Failure(s) THEN badio \cup {"write_block"} ELSE badio
    /\ wrote' = wrote \cup {"data"}
    /\ blocks_written' = Append(blocks_written, WriteArgs(buff))
    /\ Did("archive_write_data_block")
    /\ misuse' = (misuse \/ Touch(ext))
    /\ unpolled' = unpolled + 1
    /\ late' = IF Cancelled(token) THEN late + 1 ELSE late
    /\ UNCHANGED <<inputs, token, tok0, a, ext, dirv, walkv, inspv, entry,
                   nhdr, nblk, leak, buff, blocks_read, seen, pairv>>

(***************************************************************************)
(* extract_archive: cleanup, lines 296-311                                 *)
(***************************************************************************)
\* the restore left out of the cleanup
RestoreDir_skip == cwd

\* lines 297-299: the working directory after the restore
RestoreDir == IF changed_dir THEN current_dir ELSE cwd

\* the sessions closed and freed without the test for NULL
NonNull_always(h) == TRUE

\* lines 301, 306 and 480: if (a != NULL), if (ext != NULL)
NonNull(h) == h # "null"

E_Restore ==
    /\ pc = "e_restore"
    /\ cwd' = RestoreDir
    /\ IF changed_dir THEN Did("chdir") ELSE call' = "none" /\ UNCHANGED did
    /\ pc' = "e_close_a"
    /\ UNCHANGED <<inputs, token, tok0, a, ext, current_dir, changed_dir,
                   walkv, inspv, r, entry, result, nhdr, nblk, misuse, leak,
                   wrote, cause, badio, obsv>>

E_CloseA ==
    /\ pc = "e_close_a"
    /\ IF NonNull(a)
       THEN /\ a' = "freed"
            /\ misuse' = (misuse \/ Touch(a))
            /\ did' = did \cup {"archive_read_close", "archive_read_free"}
            /\ call' = "archive_read_free"
       ELSE call' = "none" /\ UNCHANGED <<a, misuse, did>>
    /\ pc' = "e_close_ext"
    /\ UNCHANGED <<inputs, token, tok0, ext, dirv, walkv, inspv, r, entry,
                   result, nhdr, nblk, leak, wrote, cause, badio, obsv>>

E_CloseExt ==
    /\ pc = "e_close_ext"
    /\ IF NonNull(ext)
       THEN /\ ext' = "freed"
            /\ misuse' = (misuse \/ Touch(ext))
            /\ did' = did \cup {"archive_write_close", "archive_write_free"}
            /\ call' = "archive_write_free"
       ELSE call' = "none" /\ UNCHANGED <<ext, misuse, did>>
    /\ pc' = "done"
    /\ UNCHANGED <<inputs, token, tok0, a, dirv, walkv, inspv, r, entry,
                   result, nhdr, nblk, leak, wrote, cause, badio, obsv>>

ExtractNext ==
    \/ E_Entry \/ E_New \/ E_Passphrase \/ E_DiskNew \/ E_Open \/ E_Stat
    \/ E_Getcwd \/ E_Chdir \/ E_Poll \/ E_NextHeader \/ E_WriteHeader
    \/ CD_Poll \/ CD_Read \/ CD_Write
    \/ E_Restore \/ E_CloseA \/ E_CloseExt


(***************************************************************************)
(* The file system compress_files reads.  A tree maps a node (the names    *)
(* from the source path down) to its type: "dir", "reg", "other" (a device,*)
(* a socket), "dangling" (a link whose target is gone: readdir lists it,   *)
(* stat fails), and "missing" for a source path that does not exist.       *)
(***************************************************************************)
Names == {"A", "B", "c"}
Dots == {".", ".."}

\* const char *source_path
SourcePath == Str("s")

TreeMissing == (<<>> :> "missing")
TreeFile == (<<>> :> "reg")
TreeOther == (<<>> :> "other")
TreeFlat ==
    (<<>> :> "dir") @@ (<<"c">> :> "reg") @@ (<<"B">> :> "dangling")
    @@ (<<"A">> :> "dir") @@ (<<"A", "c">> :> "other")
\* s/A/B is BufSize - 1 bytes long with the lengths LenA and LenB
TreeDeep ==
    (<<>> :> "dir") @@ (<<"A">> :> "dir") @@ (<<"A", "B">> :> "dir")
    @@ (<<"A", "B", "c">> :> "reg")
Trees == {TreeMissing, TreeFile, TreeOther, TreeFlat, TreeDeep}

\* the format selectors tried: 1..9 are known, 0 and 10 are not
Formats == 0..10

\* what readdir lists for the directory at node
Listing(t, node) == {n \in Names : Append(node, n) \in DOMAIN t} \cup Dots

\* The node a path names and its type as stat sees it.  A path whose last
\* name was cut by a truncation names nothing (no name of a tree is the
\* beginning of another); a trailing separator needs a directory.
Resolve(t, path) ==
    LET comps == SelectSeq(path, LAMBDA k : k.n # "/")
        whole == \A i \in 1..Len(comps) : comps[i].len = NameLen(comps[i].n)
        node == [i \in 1..(Len(comps) - 1) |-> comps[i + 1].n]
        trailing == path[Len(path)].n = "/"
        found == whole /\ node \in DOMAIN t
        type == IF ~found THEN "missing"
                ELSE IF t[node] = "dangling" THEN "missing"
                ELSE IF trailing /\ t[node] # "dir" THEN "missing"
                ELSE t[node]
    IN [node |-> node, type |-> type]

\* the path of a node relative to the source root: names joined by "/"
RECURSIVE Join(_)
Join(node) ==
    IF Len(node) = 0 THEN <<>>
    ELSE IF Len(node) = 1 THEN Str(node[1])
    ELSE Str(node[1]) \o <<Sep>> \o Join(Tail(node))

(***************************************************************************)
(* compress_files                                                          *)
(***************************************************************************)
C_Fail(code, why) == pc' = "c_cleanup" /\ result' = code /\ cause' = why

\* lines 328-331
C_Entry ==
    /\ pc = "c_entry"
    /\ tok0' = token
    /\ IF EarlyCancel(token)
       THEN pc' = "done" /\ result' = ERROR_OPERATION_CANCELLED
            /\ cause' = "early_cancel"
       ELSE pc' = "c_stat" /\ UNCHANGED <<result, cause>>
    /\ call' = "none"
    /\ unpolled' = 0
    /\ UNCHANGED <<inputs, token, a, ext, dirv, walkv, inspv, r, entry, nhdr,
                   nblk, did, misuse, leak, wrote, badio, seen, copyv, late,
                   pairv>>

\* lines 334-338
C_Stat ==
    /\ pc = "c_stat"
    /\ IF Resolve(tree, SourcePath).type = "missing"
       THEN C_Fail(ERROR_OPEN_FILE_FAILED, "stat")
       ELSE pc' = "c_new" /\ UNCHANGED <<result, cause>>
    /\ Did("stat")
    /\ UNCHANGED <<inputs, token, tok0, a, ext, dirv, walkv, inspv, r, entry,
                   nhdr, nblk, misuse, leak, wrote, badio, obsv>>

\* line 341
C_New ==
    /\ pc = "c_new"
    /\ a' = "live"
    /\ Did("archive_write_new")
    /\ pc' = "c_format"
    /\ UNCHANGED <<inputs, token, tok0, ext, dirv, walkv, inspv, r, entry,
                   result, nhdr, nblk, misuse, leak, wrote, cause, badio, obsv>>

\* a switch that takes selector 0 for a format
FormatKnown_wide(f) == f \in 0..9

\* lines 344-382: the selectors the switch has a case for
FormatKnown(f) == f \in 1..9

\* lines 345-377: the calls of each case
FormatCalls(f) ==
    CASE f = 1 -> {"set_format_zip"}
      [] f = 2 -> {"set_format_pax_restricted"}
      [] f = 3 -> {"set_format_pax_restricted", "add_filter_gzip"}
      [] f = 4 -> {"set_format_pax_restricted", "add_filter_bzip2"}
      [] f = 5 -> {"set_format_pax_restricted", "add_filter_xz"}
      [] f = 6 -> {"set_format_7zip"}
      [] f = 7 -> {"set_format_raw", "add_filter_bzip2"}
      [] f = 8 -> {"set_format_raw", "add_filter_xz"}
      [] f = 9 -> {"set_format_raw", "add_filter_gzip"}
      [] OTHER -> {}

\* lines 344-382
C_Format ==
    /\ pc = "c_format"
    /\ IF FormatKnown(format)
       THEN /\ pc' = "c_passphrase"
            /\ did' = did \cup FormatCalls(format)
            /\ call' = "set_format"
            /\ misuse' = (misuse \/ Touch(a))
            /\ UNCHANGED <<result, cause>>
       ELSE /\ C_Fail(ERROR_UNSUPPORTED_FORMAT, "format")
            /\ call' = "none"
            /\ UNCHANGED <<did, misuse>>
    /\ UNCHANGED <<inputs, token, tok0, a, ext, dirv, walkv, inspv, r, entry,
                   nhdr, nblk, leak, wrote, badio, obsv>>

\* the passphrase registered whatever the format
EncryptionCapable_all(f) == TRUE

\* line 386
EncryptionCapable(f) == f = 1 \/ f = 6

\* line 395
NeedsOption(f) == f = 1

\* lines 385-393 and 404-407, for a call with (pw) or without a password
C_PassphraseStep(pw) ==
    /\ pc = "c_passphrase"
    /\ IF pw /\ EncryptionCapable(format)
       THEN /\ \E s \in Statuses :
                 /\ r' = s
                 /\ IF s # ARCHIVE_OK
                    THEN C_Fail(ERROR_COMPRESS_FAILED, "set_passphrase")
                    ELSE /\ pc' = IF NeedsOption(format) THEN "c_options"
                                  ELSE "c_open"
                         /\ UNCHANGED <<result, cause>>
            /\ Did("archive_write_set_passphrase")
            /\ misuse' = (misuse \/ Touch(a))
       ELSE /\ pc' = "c_open"
            /\ call' = "none"
            /\ UNCHANGED <<r, result, cause, did, misuse>>
    /\ UNCHANGED <<inputs, token, tok0, a, ext, dirv, walkv, inspv, entry,
                   nhdr, nblk, leak, wrote, badio, obsv>>

\* lines 395-402
C_Options ==
    /\ pc = "c_options"
    /\ \E s \in Statuses :
          /\ r' = s
          /\ IF s # ARCHIVE_OK
             THEN C_Fail(ERROR_COMPRESS_FAILED, "set_options")
             ELSE pc' = "c_open" /\ UNCHANGED <<result, cause>>
    /\ Did("archive_write_set_options")
    /\ misuse' = (misuse \/ Touch(a))
    /\ UNCHANGED <<inputs, token, tok0, a, ext, dirv, walkv, inspv, entry,
                   nhdr, nblk, leak, wrote, badio, obsv>>

\* a fresh activation add_directory_to_archive(a, dir_path, parent_path, ..)
Frame(dir_path, parent_path) ==
    [dir_path |-> dir_path, parent_path |-> parent_path, dir |-> "null",
     dnode |-> <<>>, seen |-> {}, name |-> "", full_path |-> <<>>,
     archive_path |-> <<>>]

\* lines 410-426 and 473-477: open the archive, then dispatch on the type of
\* the source
C_Open ==
    /\ pc = "c_open"
    /\ \E s \in Statuses :
          /\ r' = s
          /\ IF s # ARCHIVE_OK
             THEN C_Fail(ERROR_CREATE_ARCHIVE_FAILED, "open") /\ UNCHANGED stack
             ELSE LET st == Resolve(tree, SourcePath).type IN
                  IF st = "dir"
                  THEN /\ pc' = "w_opendir"
                       /\ stack' = <<Frame(SourcePath, NullStr)>>
                       /\ UNCHANGED <<result, cause>>
                  ELSE IF st = "reg"
                  THEN pc' = "c_header" /\ UNCHANGED <<result, cause, stack>>
                  ELSE C_Fail(ERROR_UNSUPPORTED_FORMAT, "type") /\ UNCHANGED stack
    /\ Did("archive_write_open_filename")
    /\ misuse' = (misuse \/ Touch(a))
    /\ UNCHANGED <<inputs, token, tok0, a, ext, dirv, file, hdrs, inspv,
                   entry, nhdr, nblk, leak, wrote, badio, obsv>>

\* lines 431-436: the name after the last '/' of the path, or the whole path
RECURSIVE Basename(_)
Basename(path) ==
    IF \A i \in 1..Len(path) : path[i].n # "/" THEN path
    ELSE Basename(Tail(path))

\* lines 428-451: the single source file's header
C_Header ==
    /\ pc = "c_header"
    /\ \E s \in Statuses :
          /\ r' = s
          /\ IF s < ARCHIVE_OK
             THEN C_Fail(ERROR_COMPRESS_FAILED, "header")
             ELSE pc' = "c_fopen" /\ UNCHANGED <<result, cause>>
          /\ badio' = IF Failure(s) THEN badio \cup {"write_header"} ELSE badio
    /\ hdrs' = Append(hdrs, [path |-> Basename(SourcePath), node |-> <<>>,
                             kind |-> "reg"])
    /\ Did("archive_write_header")
    /\ misuse' = (misuse \/ Touch(a))
    /\ UNCHANGED <<inputs, token, tok0, a, ext, dirv, file, stack, inspv,
                   entry, nhdr, nblk, leak, wrote, obsv>>

\* lines 454-455 and 468-472
C_Fopen ==
    /\ pc = "c_fopen"
    /\ \E ok \in BOOLEAN :
          IF ok
          THEN /\ file' = "live"
               /\ pc' = "c_fread"
               /\ UNCHANGED <<result, cause>>
          ELSE /\ C_Fail(ERROR_OPEN_FILE_FAILED, "fopen")
               /\ UNCHANGED file
    /\ nblk' = 0
    /\ Did("fopen")
    /\ UNCHANGED <<inputs, token, tok0, a, ext, dirv, stack, hdrs, inspv, r,
                   entry, nhdr, misuse, leak, wrote, badio, obsv>>

\* lines 458 and 467: fread delivers a chunk, or nothing and the file is closed
C_Fread ==
    /\ pc = "c_fread"
    /\ \E more \in BOOLEAN :
          /\ more => nblk < MaxBlocks
          /\ IF more
             THEN /\ pc' = "c_poll"
                  /\ nblk' = nblk + 1
                  /\ Did("fread")
                  /\ UNCHANGED file
             ELSE /\ pc' = "c_cleanup"
                  /\ file' = "closed"
                  /\ Did("fclose")
                  /\ UNCHANGED nblk
    /\ misuse' = (misuse \/ Touch(file))
    /\ UNCHANGED <<inputs, token, tok0, a, ext, dirv, stack, hdrs, inspv, r,
                   entry, result, nhdr, leak, wrote, cause, badio, obsv>>

\* lines 459-464
C_Poll ==
    /\ pc = "c_poll"
    /\ IF Cancelled(token)
       THEN /\ file' = "closed"
            /\ misuse' = (misuse \/ Touch(file))
            /\ Did("fclose")
            /\ C_Fail(ERROR_OPERATION_CANCELLED, "cancel")
       ELSE /\ pc' = "c_write_data"
            /\ call' = "none"
            /\ UNCHANGED <<file, misuse, did, result, cause>>
    /\ unpolled' = 0
    /\ UNCHANGED <<inputs, token, tok0, a, ext, dirv, stack, hdrs, inspv, r,
                   entry, nhdr, nblk, leak, wrote, badio, seen, copyv, late,
                   pairv>>

\* line 465: the value archive_write_data returns is not looked at
C_WriteData ==
    /\ pc = "c_write_data"
    /\ \E s \in Statuses :
          badio' = IF Failure(s) THEN badio \cup {"write_data"} ELSE badio
    /\ pc' = "c_fread"
    /\ Did("archive_write_data")
    /\ misuse' = (misuse \/ Touch(a))
    /\ unpolled' = unpolled + 1
    /\ UNCHANGED <<inputs, token, tok0, a, ext, dirv, walkv, inspv, r, entry,
                   result, nhdr, nblk, leak, wrote, cause, seen, copyv, late,
                   pairv>>

\* lines 479-485
C_Cleanup ==
    /\ pc = "c_cleanup"
    /\ IF NonNull(a)
       THEN /\ a' = "freed"
            /\ misuse' = (misuse \/ Touch(a))
            /\ did' = did \cup {"archive_write_close", "archive_write_free"}
            /\ call' = "archive_write_free"
       ELSE call' = "none" /\ UNCHANGED <<a, misuse, did>>
    /\ pc' = "done"
    /\ UNCHANGED <<inputs, token, tok0, ext, dirv, walkv, inspv, r, entry,
                   result, nhdr, nblk, leak, wrote, cause, badio, obsv>>


(***************************************************************************)
(* add_directory_to_archive, called at line 420 and, recursively, at 102   *)
(***************************************************************************)
Top == stack[Len(stack)]
SetTop(f) == [stack EXCEPT ![Len(stack)] = f]

\* closedir(dir) of the activation f
Closedir(f) == [f EXCEPT !.dir = "closed"]

\* line 65
IsDot(name) == name \in Dots

\* the activation f returns rv to its caller
WReturn(f, rv) ==
    /\ stack' = SubSeq(stack, 1, Len(stack) - 1)
    /\ r' = rv
    /\ leak' = (leak \/ f.dir = "live")
    /\ pc' = "w_return"

\* lines 52-56: opendir fails when the path is no directory, for want of a
\* descriptor, or for a reason of the system's own
W_Opendir ==
    /\ pc = "w_opendir"
    /\ \E ok \in BOOLEAN :
          /\ ok => /\ Len(stack) <= MaxDepth
                   /\ Resolve(tree, Top.dir_path).type = "dir"
          /\ IF ok
             THEN /\ stack' = SetTop([Top EXCEPT
                                        !.dir = "live",
                                        !.dnode = Resolve(tree, Top.dir_path).node])
                  /\ pc' = "w_readdir"
                  /\ UNCHANGED <<r, leak>>
             ELSE WReturn(Top, ARCHIVE_FATAL)
    /\ Did("opendir")
    /\ UNCHANGED <<inputs, token, tok0, a, ext, dirv, file, hdrs, inspv,
                   entry, result, nhdr, nblk, misuse, wrote, cause, badio, obsv>>

\* lines 58 and 142-143: the next name of the listing, in the order the
\* system chooses, or its end
W_Readdir ==
    /\ pc = "w_readdir"
    /\ LET rest == Listing(tree, Top.dnode) \ Top.seen IN
       IF rest = {}
       THEN /\ WReturn(Closedir(Top), ARCHIVE_OK)
            /\ did' = did \cup {"readdir", "closedir"}
            /\ call' = "closedir"
       ELSE /\ \E n \in rest :
                 stack' = SetTop([Top EXCEPT !.seen = @ \cup {n}, !.name = n])
            /\ pc' = "w_poll"
            /\ Did("readdir")
            /\ UNCHANGED <<r, leak>>
    /\ misuse' = (misuse \/ Touch(Top.dir))
    /\ UNCHANGED <<inputs, token, tok0, a, ext, dirv, file, hdrs, inspv,
                   entry, result, nhdr, nblk, wrote, cause, badio, obsv>>

\* lines 59-76
W_Poll ==
    /\ pc = "w_poll"
    /\ IF Cancelled(token)
       THEN /\ WReturn(Closedir(Top), ERROR_OPERATION_CANCELLED)
            /\ misuse' = (misuse \/ Touch(Top.dir))
            /\ Did("closedir")
       ELSE /\ IF IsDot(Top.name)
               THEN pc' = "w_readdir" /\ UNCHANGED stack
               ELSE /\ pc' = "w_stat"
                    /\ stack' = SetTop([Top EXCEPT
                          !.full_path = FullPath(Top.dir_path, Top.name),
                          !.archive_path = ArchivePath(Top.parent_path, Top.name)])
            /\ call' = "none"
            /\ UNCHANGED <<r, leak, misuse, did>>
    /\ unpolled' = 0
    /\ UNCHANGED <<inputs, token, tok0, a, ext, dirv, file, hdrs, inspv,
                   entry, result, nhdr, nblk, wrote, cause, badio, seen,
                   copyv, late, pairv>>

\* lines 78-83 and 107
W_Stat ==
    /\ pc = "w_stat"
    /\ LET st == Resolve(tree, Top.full_path).type IN
       pc' = IF st = "dir" THEN "w_hdr_dir"
             ELSE IF st = "reg" THEN "w_hdr_file"
             ELSE "w_readdir"
    /\ Did("stat")
    /\ UNCHANGED <<inputs, token, tok0, a, ext, dirv, walkv, inspv, r, entry,
                   result, nhdr, nblk, misuse, leak, wrote, cause, badio, obsv>>

\* the header the activation writes for the child it is at
Header(f, kind) ==
    [path |-> f.archive_path, node |-> Append(f.dnode, f.name), kind |-> kind]

\* lines 85-106
W_HeaderDir ==
    /\ pc = "w_hdr_dir"
    /\ \E s \in Statuses :
          /\ IF s < ARCHIVE_OK
             THEN /\ WReturn(Closedir(Top), s)
                  /\ did' = did \cup {"archive_write_header", "closedir"}
                  /\ call' = "closedir"
                  /\ misuse' = (misuse \/ Touch(a) \/ Touch(Top.dir))
             ELSE /\ stack' = Append(stack, Frame(Top.full_path, Top.archive_path))
                  /\ r' = s
                  /\ pc' = "w_opendir"
                  /\ Did("archive_write_header")
                  /\ misuse' = (misuse \/ Touch(a))
                  /\ UNCHANGED leak
          /\ badio' = IF Failure(s) THEN badio \cup {"write_header"} ELSE badio
    /\ hdrs' = Append(hdrs, Header(Top, "dir"))
    /\ UNCHANGED <<inputs, token, tok0, a, ext, dirv, file, inspv, entry,
                   result, nhdr, nblk, wrote, cause, obsv>>

\* lines 109-123
W_HeaderFile ==
    /\ pc = "w_hdr_file"
    /\ \E s \in Statuses :
          /\ IF s < ARCHIVE_OK
             THEN /\ WReturn(Closedir(Top), s)
                  /\ did' = did \cup {"archive_write_header", "closedir"}
                  /\ call' = "closedir"
                  /\ misuse' = (misuse \/ Touch(a) \/ Touch(Top.dir))
             ELSE /\ r' = s
                  /\ pc' = "w_fopen"
                  /\ Did("archive_write_header")
                  /\ misuse' = (misuse \/ Touch(a))
                  /\ UNCHANGED <<stack, leak>>
          /\ badio' = IF Failure(s) THEN badio \cup {"write_header"} ELSE badio
    /\ hdrs' = Append(hdrs, Header(Top, "reg"))
    /\ UNCHANGED <<inputs, token, tok0, a, ext, dirv, file, inspv, entry,
                   result, nhdr, nblk, wrote, cause, obsv>>

\* lines 126-127 and 134-138
W_Fopen ==
    /\ pc = "w_fopen"
    /\ \E ok \in BOOLEAN :
          IF ok
          THEN /\ file' = "live"
               /\ pc' = "w_fread"
               /\ Did("fopen")
               /\ UNCHANGED <<stack, r, leak, misuse>>
          ELSE /\ WReturn(Closedir(Top), ARCHIVE_FATAL)
               /\ did' = did \cup {"fopen", "closedir"}
               /\ call' = "closedir"
               /\ misuse' = (misuse \/ Touch(Top.dir))
               /\ UNCHANGED file
    /\ nblk' = 0
    /\ UNCHANGED <<inputs, token, tok0, a, ext, dirv, hdrs, inspv, entry,
                   result, nhdr, wrote, cause, badio, obsv>>

\* lines 130 and 133
W_Fread ==
    /\ pc = "w_fread"
    /\ \E more \in BOOLEAN :
          /\ more => nblk < MaxBlocks
          /\ IF more
             THEN /\ pc' = "w_write_data"
                  /\ nblk' = nblk + 1
                  /\ Did("fread")
                  /\ UNCHANGED file
             ELSE /\ pc' = "w_readdir"
                  /\ file' = "closed"
                  /\ Did("fclose")
                  /\ UNCHANGED nblk
    /\ misuse' = (misuse \/ Touch(file))
    /\ UNCHANGED <<inputs, token, tok0, a, ext, dirv, stack, hdrs, inspv, r,
                   entry, result, nhdr, leak, wrote, cause, badio, obsv>>

\* line 131: the value archive_write_data returns is not looked at
W_WriteData ==
    /\ pc = "w_write_data"
    /\ \E s \in Statuses :
          badio' = IF Failure(s) THEN badio \cup {"write_data"} ELSE badio
    /\ pc' = "w_fread"
    /\ Did("archive_write_data")
    /\ misuse' = (misuse \/ Touch(a))
    /\ unpolled' = unpolled + 1
    /\ UNCHANGED <<inputs, token, tok0, a, ext, dirv, walkv, inspv, r, entry,
                   result, nhdr, nblk, leak, wrote, cause, seen, copyv, late,
                   pairv>>

\* the value returned by the walker handed to the caller as it is
WalkResult_raw(rv) == rv

\* lines 421-425: the result compress_files makes of the walker's value rv
WalkResult(rv) ==
    IF rv = ERROR_OPERATION_CANCELLED THEN ERROR_OPERATION_CANCELLED
    ELSE ERROR_COMPRESS_FAILED

\* an activation has returned r: to the activation that called it (lines
\* 103-106), or to compress_files (lines 421-425)
W_Return ==
    /\ pc = "w_return"
    /\ IF stack = <<>>
       THEN /\ IF r < ARCHIVE_OK
               THEN C_Fail(WalkResult(r), "walker")
               ELSE pc' = "c_cleanup" /\ UNCHANGED <<result, cause>>
            /\ call' = "none"
            /\ UNCHANGED <<stack, r, leak, misuse, did>>
       ELSE /\ IF r < ARCHIVE_OK
               THEN /\ WReturn(Closedir(Top), r)
                    /\ misuse' = (misuse \/ Touch(Top.dir))
                    /\ Did("closedir")
               ELSE /\ pc' = "w_readdir"
                    /\ call' = "none"
                    /\ UNCHANGED <<stack, r, leak, misuse, did>>
            /\ UNCHANGED <<result, cause>>
    /\ UNCHANGED <<inputs, token, tok0, a, ext, dirv, file, hdrs, inspv,
                   entry, nhdr, nblk, wrote, badio, obsv>>

\* the steps of compress_files that do not read the password
CompressOther ==
    \/ C_Entry \/ C_Stat \/ C_New \/ C_Format \/ C_Options
    \/ C_Open \/ C_Header \/ C_Fopen \/ C_Fread \/ C_Poll \/ C_WriteData
    \/ C_Cleanup
    \/ W_Opendir \/ W_Readdir \/ W_Poll \/ W_Stat \/ W_HeaderDir
    \/ W_HeaderFile \/ W_Fopen \/ W_Fread \/ W_WriteData \/ W_Return

\* line 385 reads the password of the call
C_Passphrase == C_PassphraseStep(password)

CompressNext == CompressOther \/ C_Passphrase

(***************************************************************************)
(* check_archive_encryption                                                *)
(***************************************************************************)
\* lines 501-503
K_New ==
    /\ pc = "k_new"
    /\ a' = "live"
    /\ Did("archive_read_new")
    /\ pc' = "k_open"
    /\ UNCHANGED <<inputs, token, tok0, ext, dirv, walkv, inspv, r, entry,
                   result, nhdr, nblk, misuse, leak, wrote, cause, badio, obsv>>

\* lines 506-510
K_Open ==
    /\ pc = "k_open"
    /\ \E s \in Statuses :
          /\ r' = s
          /\ IF s # ARCHIVE_OK
             THEN /\ a' = "freed"
                  /\ did' = did \cup {"archive_read_open_filename", "archive_read_free"}
                  /\ call' = "archive_read_free"
                  /\ result' = ERROR_OPEN_FILE_FAILED
                  /\ cause' = "open"
                  /\ pc' = "done"
             ELSE /\ Did("archive_read_open_filename")
                  /\ pc' = "k_next_header"
                  /\ UNCHANGED <<a, result, cause>>
    /\ misuse' = (misuse \/ Touch(a))
    /\ UNCHANGED <<inputs, token, tok0, ext, dirv, walkv, inspv, entry, nhdr,
                   nblk, leak, wrote, badio, obsv>>

\* no entry is ever taken for encrypted
EntryEncrypted_never(e) == FALSE

\* line 514: archive_entry_is_encrypted(entry)
EntryEncrypted(e) == e.enc

\* lines 513-517
K_NextHeader ==
    /\ pc = "k_next_header"
    /\ \E ans \in HeaderAnswers :
          /\ r' = ans[1]
          /\ entry' = ans[2]
          /\ seen' = Append(seen, [s |-> ans[1], enc |-> ans[2].enc])
          /\ nhdr' = IF ans[2] = NoEntry THEN nhdr ELSE nhdr + 1
          /\ IF ans[1] = ARCHIVE_OK
             THEN IF EntryEncrypted(ans[2])
                  THEN has_encrypted_entries' = 1 /\ pc' = "k_close"
                  ELSE pc' = "k_skip" /\ UNCHANGED has_encrypted_entries
             ELSE pc' = "k_close" /\ UNCHANGED has_encrypted_entries
    /\ Did("archive_read_next_header")
    /\ misuse' = (misuse \/ Touch(a))
    /\ UNCHANGED <<inputs, token, tok0, a, ext, dirv, walkv, supported,
                   result, nblk, leak, wrote, cause, badio, copyv, unpolled,
                   late, pairv>>

\* line 518
K_Skip ==
    /\ pc = "k_skip"
    /\ Did("archive_read_data_skip")
    /\ misuse' = (misuse \/ Touch(a))
    /\ pc' = "k_next_header"
    /\ UNCHANGED <<inputs, token, tok0, a, ext, dirv, walkv, inspv, r, entry,
                   result, nhdr, nblk, leak, wrote, cause, badio, obsv>>

\* lines 522-529
K_Close ==
    /\ pc = "k_close"
    /\ a' = "freed"
    /\ misuse' = (misuse \/ Touch(a))
    /\ did' = did \cup {"archive_read_close", "archive_read_free"}
    /\ call' = "archive_read_free"
    /\ result' = IF has_encrypted_entries # 0 THEN ENCRYPTION_PRESENT
                 ELSE ENCRYPTION_NONE
    /\ pc' = "done"
    /\ UNCHANGED <<inputs, token, tok0, ext, dirv, walkv, inspv, r, entry,
                   nhdr, nblk, leak, wrote, cause, badio, obsv>>

(***************************************************************************)
(* check_archive_format_support                                            *)
(***************************************************************************)
\* lines 543-545
F_New ==
    /\ pc = "f_new"
    /\ a' = "live"
    /\ Did("archive_read_new")
    /\ pc' = "f_open"
    /\ UNCHANGED <<inputs, token, tok0, ext, dirv, walkv, inspv, r, entry,
                   result, nhdr, nblk, misuse, leak, wrote, cause, badio, obsv>>

\* an open that answers a warning taken for a success
Opened_lenient(s) == s >= ARCHIVE_WARN

\* line 549: r == ARCHIVE_OK
Opened(s) == s = ARCHIVE_OK

\* lines 548-556
F_Open ==
    /\ pc = "f_open"
    /\ \E s \in Statuses :
          /\ r' = s
          /\ IF Opened(s)
             THEN /\ supported' = 1
                  /\ did' = did \cup {"archive_read_open_filename", "archive_read_close"}
                  /\ call' = "archive_read_close"
             ELSE /\ supported' = 0
                  /\ Did("archive_read_open_filename")
    /\ misuse' = (misuse \/ Touch(a))
    /\ pc' = "f_free"
    /\ UNCHANGED <<inputs, token, tok0, a, ext, dirv, walkv,
                   has_encrypted_entries, entry, result, nhdr, nblk, leak,
                   wrote, cause, badio, obsv>>

\* lines 559-561
F_Free ==
    /\ pc = "f_free"
    /\ a' = "freed"
    /\ misuse' = (misuse \/ Touch(a))
    /\ Did("archive_read_free")
    /\ result' = supported
    /\ pc' = "done"
    /\ UNCHANGED <<inputs, token, tok0, ext, dirv, walkv, inspv, r, entry,
                   nhdr, nblk, leak, wrote, cause, badio, obsv>>

InspectNext == K_New \/ K_Open \/ K_NextHeader \/ K_Skip \/ K_Close
               \/ F_New \/ F_Open \/ F_Free

(***************************************************************************)
(* The calls.                                                              *)
(***************************************************************************)
Ops == {"extract_archive", "compress_files", "check_archive_encryption",
        "check_archive_format_support"}

\* the first position of each entry point
Start(o) ==
    CASE o = "extract_archive" -> "e_entry"
      [] o = "compress_files" -> "c_entry"
      [] o = "check_archive_encryption" -> "k_new"
      [] OTHER -> "f_new"

\* the state at the entry of a call
InitCall ==
    /\ op \in Ops
    /\ password \in (IF op \in {"extract_archive", "compress_files"}
                     THEN BOOLEAN ELSE {FALSE})
    /\ format \in (IF op = "compress_files" THEN Formats ELSE {0})
    /\ tree \in (IF op = "compress_files" THEN Trees ELSE {TreeMissing})
    /\ token \in (IF op \in {"extract_archive", "compress_files"}
                  THEN {"null", "clear", "set"} ELSE {"null"})
    /\ tok0 = "unread"
    /\ pc = Start(op)
    /\ a = "null" /\ ext = "null" /\ file = "null"
    /\ stack = <<>>
    /\ cwd = "orig" /\ current_dir = "unset" /\ changed_dir = FALSE
    /\ r = ARCHIVE_OK
    /\ entry = NoEntry
    /\ result = SUCCESS
    /\ has_encrypted_entries = 0 /\ supported = 0
    /\ nhdr = 0 /\ nblk = 0
    /\ did = {} /\ call = "none"
    /\ misuse = FALSE /\ leak = FALSE
    /\ wrote = {} /\ cause = "none" /\ badio = {} /\ hdrs = <<>>
    /\ buff = NoBlock /\ seen = <<>>
    /\ blocks_read = <<>> /\ blocks_written = <<>>
    /\ unpolled = 0 /\ late = 0
    /\ landed = {}

\* a second call that is not there
NoPeer == [pc |-> "absent", current_dir |-> "unset", changed_dir |-> FALSE]

Init == InitCall /\ peer = NoPeer

Next == SetCancel \/ ExtractNext \/ CompressNext \/ InspectNext

Spec == Init /\ [][Next]_vars

\* The thread that runs the call goes on as long as it has a step to take:
\* every call to libarchive and to the system returns.  Nothing obliges the
\* other thread to set the cancel flag.
Running == ExtractNext \/ CompressNext \/ InspectNext

LiveSpec == Init /\ [][Next]_vars /\ WF_vars(Running)

(***************************************************************************)
(* Two extract_archive calls in one process.  The second call runs the     *)
(* same code on sessions of its own, with another destination; what the    *)
(* two calls share is the working directory of the process.  Of the second *)
(* call only the steps that read or write that directory are kept apart:   *)
(* the steps before getcwd are one step, and so are the steps of the entry *)
(* loop between two headers written to disk.                               *)
(***************************************************************************)
\* everything of the first call but the working directory
firstv == <<inputs, token, tok0, pc, a, ext, current_dir, changed_dir, walkv,
            inspv, r, entry, result, nhdr, nblk, did, call, misuse, leak,
            wrote, cause, badio, seen, copyv, unpolled, late>>

\* lines 182-224: the second call returns at once (line 184), goes to its
\* cleanup (lines 204, 217), or reaches getcwd
P_Entry ==
    /\ peer.pc = "p_entry"
    /\ \E next \in {"done", "p_restore", "p_getcwd"} :
          peer' = [peer EXCEPT !.pc = next]
    /\ UNCHANGED <<firstv, cwd, landed>>

\* lines 227-231
P_Getcwd ==
    /\ peer.pc = "p_getcwd"
    /\ \E ok \in BOOLEAN :
          peer' = IF ok
                  THEN [peer EXCEPT !.pc = "p_chdir", !.current_dir = cwd]
                  ELSE [peer EXCEPT !.pc = "p_restore"]
    /\ UNCHANGED <<firstv, cwd, landed>>

\* lines 233-238
P_Chdir ==
    /\ peer.pc = "p_chdir"
    /\ \E ok \in BOOLEAN :
          IF ok
          THEN /\ cwd' = "dest2"
               /\ peer' = [peer EXCEPT !.pc = "p_loop", !.changed_dir = TRUE]
          ELSE /\ peer' = [peer EXCEPT !.pc = "p_restore"]
               /\ UNCHANGED cwd
    /\ UNCHANGED <<firstv, landed>>

\* line 279: archive_write_header creates the entry under a relative path,
\* that is in the working directory the process has at this moment
P_WriteHeader ==
    /\ peer.pc = "p_loop"
    /\ landed' = landed \cup {[call |-> 2, dir |-> cwd]}
    /\ UNCHANGED <<firstv, cwd, peer>>

\* the loop ends: end of archive, a failure or a cancellation
P_Leave ==
    /\ peer.pc = "p_loop"
    /\ peer' = [peer EXCEPT !.pc = "p_restore"]
    /\ UNCHANGED <<firstv, cwd, landed>>

\* lines 296-311
P_Restore ==
    /\ peer.pc = "p_restore"
    /\ cwd' = IF peer.changed_dir THEN peer.current_dir ELSE cwd
    /\ peer' = [peer EXCEPT !.pc = "done"]
    /\ UNCHANGED <<firstv, landed>>

PeerNext == P_Entry \/ P_Getcwd \/ P_Chdir \/ P_WriteHeader \/ P_Leave
            \/ P_Restore

\* both calls are given a cancel flag, clear when they start: the other thread
\* may set it before their first step as well as at any later moment
PairInit ==
    /\ InitCall
    /\ op = "extract_archive"
    /\ token = "clear"
    /\ peer = [pc |-> "p_entry", current_dir |-> "unset", changed_dir |-> FALSE]

PairNext == SetCancel \/ ExtractNext \/ PeerNext

PairSpec == PairInit /\ [][PairNext]_vars


(***************************************************************************)
(* The claims.                                                             *)
(***************************************************************************)
AtReturn == pc = "done"
InCleanup == pc \in {"e_restore", "e_close_a", "e_close_ext", "done"}

\* C1: a call of extract_archive or compress_files that finds the cancel
\* flag set at its head returns OperationCancelled and has done nothing
\* else: no session exists, no collaborator or system call was made (no
\* passphrase, no stat, no mkdir, no open), and the working directory is
\* the one of the call's entry.
C1_EarlyCancelInert ==
    tok0 = "set" =>
        /\ AtReturn
        /\ result = ERROR_OPERATION_CANCELLED
        /\ did = {}
        /\ a = "null" /\ ext = "null" /\ file = "null" /\ stack = <<>>
        /\ cwd = "orig" /\ ~changed_dir
        /\ hdrs = <<>> /\ wrote = {}

C1_Witness ==
    /\ op = "compress_files" /\ tok0 = "set" /\ AtReturn
    /\ result = ERROR_OPERATION_CANCELLED

\* C2: no call is ever made on a session, a directory stream or a file that
\* does not exist or was released (a second release is such a call), no
\* activation of the walker returns with its directory stream open, and at
\* the return of any of the four entry points every session and file that
\* was created is released and no activation is left.
C2_ResourcesReleasedOnce ==
    /\ ~misuse
    /\ ~leak
    /\ AtReturn =>
          /\ a \in {"null", "freed"}
          /\ ext \in {"null", "freed"}
          /\ file \in {"null", "closed"}
          /\ stack = <<>>
          /\ ("archive_read_new" \in did \/ "archive_write_new" \in did) => a = "freed"
          /\ "archive_write_disk_new" \in did => ext = "freed"

\* extract_archive left for the cleanup before ext was created
C2_Witness ==
    /\ op = "extract_archive" /\ AtReturn
    /\ a = "freed" /\ ext = "null" /\ result = ERROR_WRONG_PASSWORD

\* C3: extract_archive returns with the working directory of its entry.
C3_CwdRestored ==
    (op = "extract_archive" /\ AtReturn) => cwd = "orig"

\* an exit taken after the switch to the destination directory
C3_Witness ==
    /\ op = "extract_archive" /\ AtReturn /\ changed_dir
    /\ result = ERROR_EXTRACT_FAILED /\ cwd = "orig"

\* C4: without a password, once a header read has delivered an entry with
\* the encrypted flag (whatever its status), the call is in its cleanup
\* with PasswordRequired and no write was issued for that entry.
C4_PasswordRequired ==
    (op = "extract_archive" /\ ~password /\ entry.valid /\ entry.enc) =>
        /\ result = ERROR_PASSWORD_REQUIRED
        /\ InCleanup
        /\ wrote = {}

\* the header read that delivered the encrypted entry answered a failure
C4_Witness ==
    /\ op = "extract_archive" /\ ~password /\ entry.valid /\ entry.enc
    /\ r = ARCHIVE_FATAL /\ AtReturn /\ result = ERROR_PASSWORD_REQUIRED

\* the archive abstraction has rejected the password: at its registration,
\* on the header read of an encrypted entry, or on a data block of one
Rejected ==
    \/ cause = "passphrase"
    \/ cause = "header" /\ entry.enc /\ r < ARCHIVE_OK
    \/ cause = "read_block" /\ entry.enc /\ Failure(r)

\* C5: extract_archive with a password the archive abstraction rejects
\* returns WrongPassword, wherever the rejection is reported.
C5_WrongPasswordEverywhere ==
    (op = "extract_archive" /\ password /\ AtReturn /\ Rejected) =>
        result = ERROR_WRONG_PASSWORD

\* C6: the step after a header read that answered Retry polls again, and
\* the step after one that answered Warning writes the entry's header, with
\* no error result, also for an encrypted entry read with a password (the
\* encrypted entry read without a password is C4's).
C6_RetryWarningAbsorbed ==
    (op = "extract_archive" /\ call = "archive_read_next_header") =>
        /\ r = ARCHIVE_RETRY => (pc = "e_poll" /\ result = SUCCESS)
        /\ (r = ARCHIVE_WARN /\ ~(entry.enc /\ ~password)) =>
               (pc = "e_write_header" /\ result = SUCCESS)

\* C7: extract_archive and compress_files do not return Success after a
\* failure status (not OK, EOF, Retry, Warning) of a write of an entry
\* header or of entry data to the destination archive, of a write of a data
\* block, or of a read of a data block (the write of an entry's metadata to
\* disk during extraction is the exception).
C7_NoSuccessAfterFailure ==
    (op \in {"extract_archive", "compress_files"} /\ AtReturn /\ result = SUCCESS)
        => badio \cap {"write_header", "write_data", "read_block", "write_block"} = {}

\* the source path exists
SourceExists == tree[<<>>] # "missing"

\* C8 as stated: with the cancel flag not set at the head of the call and a
\* selector outside 1..9, compress_files returns UnsupportedFormat and has
\* not opened the destination, whether or not the source exists.
C8_UnknownFormatAlways ==
    (op = "compress_files" /\ tok0 \in {"null", "clear"} /\ format \notin 1..9) =>
        /\ "archive_write_open_filename" \notin did
        /\ AtReturn => result = ERROR_UNSUPPORTED_FORMAT

\* C8 amended: with the cancel flag not set at the head of the call and a
\* selector outside 1..9, compress_files never opens the destination, and
\* returns UnsupportedFormat when the source exists and OpenFileFailed when
\* it does not.
C8_UnknownFormatRefused ==
    (op = "compress_files" /\ tok0 \in {"null", "clear"} /\ format \notin 1..9) =>
        /\ "archive_write_open_filename" \notin did
        /\ AtReturn => result = IF SourceExists THEN ERROR_UNSUPPORTED_FORMAT
                                ELSE ERROR_OPEN_FILE_FAILED

C8_Witness ==
    /\ op = "compress_files" /\ format = 10 /\ tree = TreeFlat /\ AtReturn
    /\ result = ERROR_UNSUPPORTED_FORMAT /\ a = "freed"

\* C9: for the selectors 2, 3, 4, 5, 7, 8, 9 every step compress_files can
\* take with a password is a step it can take without one from the same
\* state with the same answers, and conversely (same call, same result,
\* same next position), so the two runs issue the same calls and return the
\* same result; a passphrase is registered only for the selectors 1 and 6
\* and the encryption option is set only for selector 1.
C9_PasswordIgnored ==
    /\ [][(op = "compress_files" /\ format \in {2, 3, 4, 5, 7, 8, 9}) =>
             ((CompressOther \/ C_PassphraseStep(TRUE))
                  <=> (CompressOther \/ C_PassphraseStep(FALSE)))]_vars
    /\ [](op = "compress_files" =>
             /\ "archive_write_set_passphrase" \in did => (password /\ format \in {1, 6})
             /\ "archive_write_set_options" \in did => (password /\ format = 1))

\* a password supplied for a format that cannot encrypt, and the call done
C9_Witness ==
    /\ op = "compress_files" /\ password /\ format = 3 /\ tree = TreeFile
    /\ AtReturn /\ result = SUCCESS /\ "archive_write_data" \in did

\* C10: every header compress_files writes for a directory source carries
\* the path of its node relative to the source root (the names joined by
\* "/", no leading separator), and the headers of all the directories above
\* the node were written before it.
C10_PreOrderRelativePaths ==
    \A i \in 1..Len(hdrs) :
        LET h == hdrs[i] IN
        Len(h.node) > 0 =>
            /\ h.path = Join(h.node)
            /\ h.path[1].n # "/"
            /\ \A k \in 1..(Len(h.node) - 1) :
                  \E j \in 1..(i - 1) :
                      hdrs[j].node = SubSeq(h.node, 1, k) /\ hdrs[j].kind = "dir"

\* the part of C10 on the order alone
C10_PreOrder ==
    \A i \in 1..Len(hdrs) :
        \A k \in 1..(Len(hdrs[i].node) - 1) :
            \E j \in 1..(i - 1) :
                hdrs[j].node = SubSeq(hdrs[i].node, 1, k) /\ hdrs[j].kind = "dir"


(***************************************************************************)
(* check_archive_encryption and check_archive_format_support               *)
(***************************************************************************)
\* the header reads that delivered an encrypted entry with status OK
EncryptedReads == {i \in 1..Len(seen) : seen[i].s = ARCHIVE_OK /\ seen[i].enc}

\* C11: check_archive_encryption returns OpenFileFailed exactly when the open
\* did not answer OK; otherwise Present exactly when a header read answered OK
\* with an encrypted entry, and None otherwise; never Unknown.  The scan ends
\* at the first header read that is not OK or delivers an encrypted entry:
\* every read before the last one answered OK with an entry that is not
\* encrypted, and the data of an encrypted entry is never skipped.
C11_EncryptionScan ==
    op = "check_archive_encryption" =>
        /\ \A i \in 1..(Len(seen) - 1) : seen[i].s = ARCHIVE_OK /\ ~seen[i].enc
        /\ pc = "k_skip" => ~entry.enc
        /\ pc \in {"k_next_header", "k_skip"} => EncryptedReads = {}
        /\ AtReturn =>
              /\ result # ENCRYPTION_UNKNOWN
              /\ (result = ERROR_OPEN_FILE_FAILED)
                     <=> (seen = <<>> /\ r # ARCHIVE_OK)
              /\ ~(seen = <<>> /\ r # ARCHIVE_OK) =>
                     /\ (result = ENCRYPTION_PRESENT) <=> (EncryptedReads # {})
                     /\ (result = ENCRYPTION_NONE) <=> (EncryptedReads = {})

\* an entry was skipped, then an encrypted one ended the scan
C11_Witness ==
    /\ op = "check_archive_encryption" /\ AtReturn
    /\ result = ENCRYPTION_PRESENT
    /\ Len(seen) = 2
    /\ "archive_read_data_skip" \in did

\* C12: check_archive_format_support reads no entry header; it returns 1
\* exactly when the open answered OK and 0 for every other answer of the
\* open, never a negative value.
C12_FormatSupport ==
    op = "check_archive_format_support" =>
        /\ did \cap {"archive_read_next_header", "archive_read_data_skip"} = {}
        /\ AtReturn =>
              /\ result \in {0, 1}
              /\ (result = 1) <=> (r = ARCHIVE_OK)

\* the file was opened and closed, and the call answered 1
C12_Witness ==
    /\ op = "check_archive_format_support" /\ AtReturn
    /\ result = 1
    /\ "archive_read_close" \in did


(***************************************************************************)
(* Result codes.                                                           *)
(***************************************************************************)
\* C13: extract_archive and compress_files return one of the codes 0, -1,
\* ..., -9 whatever the collaborators answer; the result is never a raw
\* status (-10, -20, -25, -30), at no point of the call.
C13_StableCodes ==
    op \in {"extract_archive", "compress_files"} =>
        /\ result \in ERROR_OPERATION_CANCELLED..SUCCESS
        /\ result \notin {ARCHIVE_RETRY, ARCHIVE_WARN, ARCHIVE_FAILED, ARCHIVE_FATAL}

\* the walker returned a raw status and compress_files returned CompressFailed
C13_Witness ==
    /\ op = "compress_files" /\ AtReturn
    /\ cause = "walker" /\ r = ARCHIVE_FATAL
    /\ result = ERROR_COMPRESS_FAILED


(***************************************************************************)
(* copy_data                                                               *)
(***************************************************************************)
IsPrefix(u, v) == Len(u) <= Len(v) /\ u = SubSeq(v, 1, Len(u))

\* C14: in copy_data the blocks written are at every moment a prefix of the
\* blocks read, each with the length and the offset it was read with, and at
\* most the last block read is not written yet; when copy_data returns
\* because the stream ended, and when it returns OperationCancelled, every
\* block read has been written.
C14_CopyPrefix ==
    op = "extract_archive" =>
        /\ IsPrefix(blocks_written, blocks_read)
        /\ Len(blocks_read) <= Len(blocks_written) + 1
        /\ (pc = "cd_write") <=> (Len(blocks_read) = Len(blocks_written) + 1)
        /\ (call = "archive_read_data_block" /\ r = ARCHIVE_EOF) =>
               blocks_written = blocks_read
        /\ (cause = "copy_cancel") => blocks_written = blocks_read

\* two blocks were read and written, then the stream ended
C14_Witness ==
    /\ op = "extract_archive"
    /\ call = "archive_read_data_block" /\ r = ARCHIVE_EOF
    /\ Len(blocks_written) = 2
    /\ blocks_written[2].offset = 1


\* C15: when a read of a data block answers a negative status during
\* extraction, what copy_data returns to line 283, and what extract_archive
\* then returns, is ReadEntryFailed.
C15_ReadFailureSurfaced ==
    (op = "extract_archive" /\ cause = "read_block") =>
        /\ r = ERROR_READ_ENTRY_FAILED
        /\ AtReturn => result = ERROR_READ_ENTRY_FAILED


(***************************************************************************)
(* Cancellation.                                                           *)
(***************************************************************************)
\* C16: in copy_data, in the chunk loop of compress_files and in the file
\* loop of add_directory_to_archive, no two data blocks are written to the
\* destination without a poll of the cancel flag between them.
C16_PollPerBlock == unpolled <= 1

\* C17: once the cancel flag is set while extract_archive runs, the call
\* issues at most one more write to the destination, an entry header or a
\* data block, before it returns.
C17_OneLateWrite ==
    op = "extract_archive" =>
        /\ late <= 1
        /\ (late = 1 /\ pc \notin {"cd_poll", "e_poll"}) => InCleanup

\* the flag was set during the call, one write followed, the call returned
\* OperationCancelled
C17_Witness ==
    /\ op = "extract_archive" /\ AtReturn
    /\ tok0 = "clear" /\ token = "set"
    /\ late = 1
    /\ result = ERROR_OPERATION_CANCELLED


(***************************************************************************)
(* extract_archive: the header written to disk.                            *)
(***************************************************************************)
\* what can end the entry loop with a result other than Success
LoopEnders == {"header", "cancel", "copy_cancel", "read_block", "write_block"}

\* C18: a write of an entry's header to disk that answers a negative status
\* leaves the result as it was and leads to the poll before the next header
\* read, without a copy of the entry's data; once the loop is entered, the
\* call returns something else than Success only for a header read, a
\* credential condition, a data copy or a cancellation.
C18_HeaderFailureTolerated ==
    /\ [][(E_WriteHeader /\ r' < ARCHIVE_OK) =>
             (pc' = "e_poll" /\ result' = result /\ cause' = cause
              /\ "data" \notin wrote')]_vars
    /\ [](op = "extract_archive" =>
             /\ pc \in {"cd_poll", "cd_read", "cd_write"} => "header" \in wrote
             /\ (pc = "cd_poll" /\ call = "archive_write_header") =>
                    r >= ARCHIVE_OK
             /\ (AtReturn /\ changed_dir /\ result # SUCCESS) => cause \in LoopEnders)

\* a header write failed and the call returned Success after a later entry
\* was copied
C18_Witness ==
    /\ op = "extract_archive" /\ AtReturn
    /\ "disk_header" \in badio
    /\ result = SUCCESS
    /\ "archive_write_data_block" \in did


(***************************************************************************)
(* Cancellation is observed, never invented.                               *)
(***************************************************************************)
\* C19: extract_archive and compress_files hold the result
\* OperationCancelled only when the cancel flag is set (it never goes back to
\* clear, so a poll read it set); with no flag, or a flag that stays clear,
\* no answer of a collaborator, of copy_data or of the walker leads to it.
\* No step of the two calls changes the flag.
C19_CancelOnlyObserved ==
    /\ [](op \in {"extract_archive", "compress_files"} =>
             /\ result = ERROR_OPERATION_CANCELLED => token = "set"
             /\ (pc = "w_return" /\ r = ERROR_OPERATION_CANCELLED) => token = "set")
    /\ [][(ExtractNext \/ CompressNext) => token' = token]_vars

\* the walker saw the flag set during the call and compress_files returned
\* OperationCancelled
C19_Witness ==
    /\ op = "compress_files" /\ AtReturn
    /\ tok0 = "clear"
    /\ cause = "walker"
    /\ result = ERROR_OPERATION_CANCELLED


(***************************************************************************)
(* Termination.                                                            *)
(***************************************************************************)
\* C20: once the cancel flag is set, a running extract_archive or
\* compress_files call returns, also when every header read answers Retry;
\* while the flag is not set, a header read that answers Retry leads back to
\* the same poll with nothing counted, so that extract_archive need not
\* return.
C20_CancelEndsTheCall ==
    /\ (op \in {"extract_archive", "compress_files"} /\ token = "set") ~> AtReturn
    /\ [][(E_NextHeader /\ r' = ARCHIVE_RETRY) =>
             (pc' = "e_poll" /\ nhdr' = nhdr /\ result' = result)]_vars
    /\ []((op = "extract_archive" /\ pc = "e_next_header") =>
             ENABLED (E_NextHeader /\ r' = ARCHIVE_RETRY))
    /\ []((op = "extract_archive" /\ pc = "e_poll" /\ token # "set") =>
             ENABLED (E_Poll /\ pc' = "e_next_header"))

\* the flag was set while header reads answered Retry over and over, and the
\* call returned OperationCancelled
C20_Witness ==
    /\ op = "extract_archive" /\ AtReturn
    /\ tok0 = "clear" /\ token = "set"
    /\ r = ARCHIVE_RETRY /\ nhdr = 0
    /\ result = ERROR_OPERATION_CANCELLED


(***************************************************************************)
(* Two concurrent calls.                                                   *)
(***************************************************************************)
\* the destination of each of the two calls
Destination(c) == IF c = 1 THEN "dest" ELSE "dest2"

\* C21: with two extract_archive calls running in one process, every entry
\* is created under the destination of the call that writes it, and once
\* both calls have returned the working directory of the process is the one
\* it had before them.
C21_ConcurrentExtracts ==
    /\ \A w \in landed : w.dir = Destination(w.call)
    /\ (AtReturn /\ peer.pc = "done") => cwd = "orig"

=============================================================================
